---- MODULE Spec2Model ----
(***************************************************************************)
(* Model of botstrap.py: the script that reconciles a Discord guild with   *)
(* the expected roles, channels, categories and webhooks and writes the    *)
(* discovered ids to .env.server.                                          *)
(*                                                                         *)
(* Names are sequences of one-character strings so that the name           *)
(* normalisation, the off-topic pattern and the f-string formatting of     *)
(* the counter are computed, not assumed.                                  *)
(***************************************************************************)
EXTENDS Integers, Sequences, FiniteSets, TLC

(* ------------------------------ bounds --------------------------------- *)
MaxRuns == 2
MaxListLen == 3

(* --------------------------- program constants ------------------------- *)
GUILD_FORUM_TYPE == 15
CATEGORY_TYPE == 4
TEXT_TYPE == 0

(* ------------------------------ strings -------------------------------- *)
Upper == <<"A","B","C","D","E","F","G","H","I","J","K","L","M",
           "N","O","P","Q","R","S","T","U","V","W","X","Y","Z">>
LowerCase == <<"a","b","c","d","e","f","g","h","i","j","k","l","m",
               "n","o","p","q","r","s","t","u","v","w","x","y","z">>
Digits == {"0","1","2","3","4","5","6","7","8","9"}
DigitChar == <<"0","1","2","3","4","5","6","7","8","9">>

UpperSet == {Upper[i] : i \in 1..26}
ToLower == [c \in UpperSet |-> LowerCase[CHOOSE i \in 1..26 : Upper[i] = c]]

\* str.lower() on one character
LowerChar(c) == IF c \in UpperSet THEN ToLower[c] ELSE c

\* str.lower()
Lower(s) == [i \in 1..Len(s) |-> LowerChar(s[i])]

\* str.split(sep) with an explicit one-character separator: empty parts are kept
RECURSIVE Split(_, _)
Split(s, sep) ==
    IF \A i \in 1..Len(s) : s[i] # sep
    THEN <<s>>
    ELSE LET k == CHOOSE i \in 1..Len(s) :
                      s[i] = sep /\ \A j \in 1..(i-1) : s[j] # sep
         IN  <<SubSeq(s, 1, k-1)>> \o Split(SubSeq(s, k+1, Len(s)), sep)

\* sep.join(parts)
RECURSIVE Join(_, _)
Join(parts, sep) ==
    IF Len(parts) = 0 THEN <<>>
    ELSE IF Len(parts) = 1 THEN parts[1]
    ELSE parts[1] \o <<sep>> \o Join(Tail(parts), sep)

\* str.replace(old, new) for one-character old and new
Replace(s, old, new) == [i \in 1..Len(s) |-> IF s[i] = old THEN new ELSE s[i]]

\* "_".join(part.lower() for part in name.split(" ")).replace("-", "_")
NormalizeName(name) ==
    LET parts == Split(name, " ")
        lowered == [i \in 1..Len(parts) |-> Lower(parts[i])]
    IN  Replace(Join(lowered, "_"), "-", "_")

\* re.match(r"ot\d{1}(_.*)+", name): anchored at the start only
OffTopicMatch(name) ==
    /\ Len(name) >= 4
    /\ name[1] = "o"
    /\ name[2] = "t"
    /\ name[3] \in Digits
    /\ name[4] = "_"

\* str(n) for a natural number, as the f-string formats the counter
RECURSIVE Str(_)
Str(n) == IF n < 10 THEN <<DigitChar[n + 1]>>
          ELSE Str(n \div 10) \o <<DigitChar[(n % 10) + 1]>>

\* f"off_topic_{off_topic_count}"
OffTopicName(k) == <<"o","f","f","_","t","o","p","i","c","_">> \o Str(k)


(* ------------------------------ dicts ---------------------------------- *)
EmptyDict == [k \in {} |-> 0]

\* d[k] = v
DictPut(d, k, v) == [x \in (DOMAIN d) \cup {k} |-> IF x = k THEN v ELSE d[x]]

\* the loop of get_all_roles
RECURSIVE RolesLoop(_, _)
RolesLoop(roles, result) ==
    IF Len(roles) = 0 THEN result
    ELSE RolesLoop(Tail(roles),
                   DictPut(result, NormalizeName(roles[1].name), roles[1].id))

\* the loop of get_all_channels_and_categories; acc holds the two dicts and
\* off_topic_count
RECURSIVE ChannelsLoop(_, _)
ChannelsLoop(server_channels, acc) ==
    IF Len(server_channels) = 0 THEN acc
    ELSE LET channel == server_channels[1]
             normalized == NormalizeName(channel.name)
             matched == OffTopicMatch(normalized)
             name == IF matched THEN OffTopicName(acc.off_topic_count) ELSE normalized
             count == IF matched THEN acc.off_topic_count + 1 ELSE acc.off_topic_count
         IN  ChannelsLoop(Tail(server_channels),
                 IF channel.type = CATEGORY_TYPE
                 THEN [channels |-> acc.channels,
                       categories |-> DictPut(acc.categories, name, channel.id),
                       off_topic_count |-> count]
                 ELSE [channels |-> DictPut(acc.channels, name, channel.id),
                       categories |-> acc.categories,
                       off_topic_count |-> count])

\* the counter starts at 1
ChannelsAndCategoriesFromOne(server_channels) ==
    ChannelsLoop(server_channels,
                 [channels |-> EmptyDict, categories |-> EmptyDict, off_topic_count |-> 1])

ChannelsAndCategories(server_channels) ==
    ChannelsLoop(server_channels,
                 [channels |-> EmptyDict, categories |-> EmptyDict, off_topic_count |-> 0])

(* ------------------------- expected schema ----------------------------- *)
PYTHON_HELP_NAME == <<"p","y","t","h","o","n","_","h","e","l","p">>
DEV_LOG == <<"d","e","v","_","l","o","g">>
BIG_BROTHER == <<"b","i","g","_","b","r","o","t","h","e","r">>

\* _Roles.__fields__
RolesFields == << <<"a","d","m","i","n","s">>, <<"h","e","l","p","e","r","s">> >>
\* _Channels.__fields__ (contains python_help: PYTHON_HELP_NAME is read from it)
ChannelsFields == << BIG_BROTHER, DEV_LOG, OffTopicName(0), PYTHON_HELP_NAME >>
\* _Categories.__fields__
CategoriesFields == << <<"l","o","g","s">> >>
\* Webhooks: name and previously-known id
Webhooks == << [name |-> BIG_BROTHER, id |-> 901], [name |-> DEV_LOG, id |-> 902] >>

(* ------------------------- the server's objects ------------------------ *)
RolePool == << [name |-> <<"A","d","m","i","n","s">>, id |-> 1],
               [name |-> <<"H","e","l","p","e","r","s">>, id |-> 2],
               [name |-> <<"D","e","v","-","O","p","s"," ","T","e","a","m">>, id |-> 3] >>

ChannelPool == <<
    [name |-> <<"L","o","g","s">>, type |-> CATEGORY_TYPE, id |-> 11],
    [name |-> <<"b","i","g","-","b","r","o","t","h","e","r">>, type |-> TEXT_TYPE, id |-> 12],
    [name |-> <<"d","e","v","-","l","o","g">>, type |-> TEXT_TYPE, id |-> 13],
    [name |-> <<"o","t","0","-","p","u","b">>, type |-> TEXT_TYPE, id |-> 14],
    [name |-> <<"p","y","t","h","o","n","-","h","e","l","p">>, type |-> TEXT_TYPE, id |-> 15],
    [name |-> <<"P","y","t","h","o","n"," ","H","e","l","p">>, type |-> GUILD_FORUM_TYPE, id |-> 16] >>

\* the entries of pool whose index is in keep, in pool order
SubList(pool, keep) ==
    LET F[i \in 0..Len(pool)] ==
            IF i = 0 THEN <<>>
            ELSE IF i \in keep THEN Append(F[i-1], pool[i]) ELSE F[i-1]
    IN  F[Len(pool)]


(* ------------------------------- state --------------------------------- *)
VARIABLES
    guild_community,         \* the guild's features contain COMMUNITY
    server_roles,            \* the guild's roles, in listing order
    server_channels,         \* the guild's channels and categories, in listing order
    server_webhooks,         \* the webhooks that exist: [id, channel_id, name]
    next_id,                 \* the next id the server assigns
    env_file,                \* the content of .env.server (<<>> before any write)
    run,                     \* the number of the current run of the script
    pc,                      \* the API call the run is about to issue, or how it ended
    config_str,              \* the accumulated configuration text, one record per line
    all_roles,
    all_channels,
    all_categories,
    create_help_channel,
    python_help_channel_id,
    webhook_idx,             \* position of the webhook loop in Webhooks
    writes,                  \* file writes of this run
    calls,                   \* the API calls of this run, in order
    pre,                     \* the server as it was when this run started
    history                  \* <<>> in the first run, then <<what the last run did>>

serverVars == <<guild_community, server_roles, server_channels, server_webhooks, next_id>>
vars == <<guild_community, server_roles, server_channels, server_webhooks, next_id,
          env_file, run, pc, config_str, all_roles, all_channels, all_categories,
          create_help_channel, python_help_channel_id, webhook_idx, writes, calls,
          pre, history>>

Server == [community |-> guild_community, roles |-> server_roles,
           channels |-> server_channels, webhooks |-> server_webhooks]

(* ----------------------------- API client ------------------------------ *)
\* Response.raise_for_status: no HTTPStatusError for a 2xx status
IsSuccess(status) == 200 <= status /\ status < 300

\* the statuses of a failing response
FailStatus == {404, 500}

\* one more call in the log: arg is the id in the path, name the name in the
\* payload, result the id in the response body
Call(op, arg, name, status, result) ==
    Append(calls, [op |-> op, arg |-> arg, name |-> name, status |-> status,
                   result |-> result])

(* --------------------------- output lines ------------------------------ *)
Header(text) == [kind |-> text, name |-> <<>>, id |-> 0]
Line(kind, name, id) == [kind |-> kind, name |-> name, id |-> id]

\* a missing name gets a line with an empty id instead of being skipped
RECURSIVE EmitFoundNoSkip(_, _, _)
EmitFoundNoSkip(kind, fields, dict) ==
    IF Len(fields) = 0 THEN <<>>
    ELSE <<Line(kind, fields[1],
                IF fields[1] \in DOMAIN dict THEN dict[fields[1]] ELSE 0)>>
         \o EmitFoundNoSkip(kind, Tail(fields), dict)

\* for name in fields: id = dict.get(name); if not id: warn, continue; emit a line
RECURSIVE EmitFound(_, _, _)
EmitFound(kind, fields, dict) ==
    IF Len(fields) = 0 THEN <<>>
    ELSE (IF fields[1] \in DOMAIN dict
          THEN <<Line(kind, fields[1], dict[fields[1]])>>
          ELSE <<>>) \o EmitFound(kind, Tail(fields), dict)


(* ------------------------ the reconciliation driver -------------------- *)
NoId == 0

\* the state of the script when the client is opened
RunStart ==
    /\ pc = "get_roles"
    /\ config_str = <<Header("#Roles")>>
    /\ all_roles = EmptyDict
    /\ all_channels = EmptyDict
    /\ all_categories = EmptyDict
    /\ create_help_channel = TRUE
    /\ python_help_channel_id = NoId
    /\ webhook_idx = 1
    /\ writes = 0
    /\ calls = <<>>

Init ==
    /\ guild_community \in BOOLEAN
    /\ \E missing \in SUBSET {1} :
          server_roles = SubList(RolePool, (1..Len(RolePool)) \ missing)
    /\ \E keep \in SUBSET (1..Len(ChannelPool)) : server_channels = SubList(ChannelPool, keep)
    /\ \E present \in SUBSET (1..Len(Webhooks)) :
          server_webhooks = {[id |-> Webhooks[i].id, channel_id |-> NoId,
                              name |-> Webhooks[i].name] : i \in present}
    /\ next_id = 101
    /\ env_file = <<>>
    /\ run = 1
    /\ RunStart
    /\ pre = Server
    /\ history = <<>>

\* the text built so far is written before the script dies
AbortAfterWrite ==
    /\ pc' = "aborted"
    /\ env_file' = config_str
    /\ writes' = writes + 1
    /\ UNCHANGED <<serverVars, run, config_str, all_roles, all_channels,
                   all_categories, create_help_channel, python_help_channel_id,
                   webhook_idx, pre, history>>

\* an uncaught HTTPStatusError: the with block is left, nothing else runs
Abort ==
    /\ pc' = "aborted"
    /\ UNCHANGED <<serverVars, env_file, run, config_str, all_roles, all_channels,
                   all_categories, create_help_channel, python_help_channel_id,
                   webhook_idx, writes, pre, history>>

\* lines 229-233: the emoji section and the second, full write
FinalText(cfg) ==
    cfg \o <<Header("#Emojis"), Line("emojis", <<"t","r","a","s","h","c","a","n">>, 0)>>

\* the head of the webhook loop (line 219) with the text cfg, the file content
\* file and n writes so far: the next GET, or the end of the script
WebhookLoop(idx, cfg, file, n) ==
    /\ webhook_idx' = idx
    /\ IF idx > Len(Webhooks)
       THEN /\ config_str' = FinalText(cfg)
            /\ env_file' = FinalText(cfg)
            /\ writes' = n + 1
            /\ pc' = "done"
       ELSE /\ config_str' = cfg
            /\ env_file' = file
            /\ writes' = n
            /\ pc' = "webhook_exists"

\* lines 192-217 once the help channel id is known: the channel and category
\* lines, the first write, then the webhook loop
EmitChannels(help_id) ==
    LET cfg == config_str
               \o EmitFound("channels", ChannelsFields, all_channels)
               \o <<Line("channels", PYTHON_HELP_NAME, help_id)>>
               \o <<Header("#Categories")>>
               \o EmitFound("categories", CategoriesFields, all_categories)
    IN  WebhookLoop(1, cfg \o <<Header("#Webhooks")>>, cfg, writes + 1)

\* lines 181-183: where the help channel resolution goes first
ResolveHelp ==
    /\ create_help_channel' = TRUE
    /\ IF PYTHON_HELP_NAME \in DOMAIN all_channels
       THEN /\ python_help_channel_id' = all_channels[PYTHON_HELP_NAME]
            /\ pc' = "is_forum_channel"
       ELSE /\ python_help_channel_id' = python_help_channel_id
            /\ pc' = "create_forum_channel"

\* lines 163-172
GetAllRoles ==
    /\ pc = "get_roles"
    /\ \E status \in {200} \cup FailStatus :
        /\ calls' = Call("GET roles", NoId, <<>>, status, NoId)
        /\ IF IsSuccess(status)
           THEN LET result == RolesLoop(server_roles, EmptyDict)
                IN  /\ all_roles' = result
                    /\ config_str' = config_str \o EmitFound("roles", RolesFields, result)
                    /\ pc' = "get_channels"
                    /\ UNCHANGED <<serverVars, env_file, run, all_channels, all_categories,
                                   create_help_channel, python_help_channel_id,
                                   webhook_idx, writes, pre, history>>
           ELSE Abort

\* lines 174-176
GetAllChannelsAndCategories ==
    /\ pc = "get_channels"
    /\ \E status \in {200} \cup FailStatus :
        /\ calls' = Call("GET channels", NoId, <<>>, status, NoId)
        /\ IF IsSuccess(status)
           THEN LET result == ChannelsAndCategories(server_channels)
                IN  /\ all_channels' = result.channels
                    /\ all_categories' = result.categories
                    /\ config_str' = Append(config_str, Header("#Channels"))
                    /\ pc' = "is_community_server"
                    /\ UNCHANGED <<serverVars, env_file, run, all_roles,
                                   create_help_channel, python_help_channel_id,
                                   webhook_idx, writes, pre, history>>
           ELSE Abort

\* the feature is never found
is_community_server_never(community) == FALSE

\* is_community_server (lines 55-58): COMMUNITY_FEATURE in the guild's features
is_community_server(community) == community

\* line 178, then lines 181-183 when the guild is a community already
IsCommunityServer ==
    /\ pc = "is_community_server"
    /\ \E status \in {200} \cup FailStatus :
        /\ calls' = Call("GET guild", NoId, <<>>, status, NoId)
        /\ IF IsSuccess(status)
           THEN /\ IF is_community_server(guild_community)
                   THEN ResolveHelp
                   ELSE /\ pc' = "upgrade_server_to_community"
                        /\ UNCHANGED <<create_help_channel, python_help_channel_id>>
                /\ UNCHANGED <<serverVars, env_file, run, config_str, all_roles,
                               all_channels, all_categories, webhook_idx, writes,
                               pre, history>>
           ELSE Abort

\* line 179 (the returned boolean is dropped), then lines 181-183
UpgradeServerToCommunity ==
    /\ pc = "upgrade_server_to_community"
    /\ \E status \in {200} \cup FailStatus :
        /\ calls' = Call("PATCH guild", NoId, <<>>, status, NoId)
        /\ IF IsSuccess(status)
           THEN /\ guild_community' = TRUE
                /\ ResolveHelp
                /\ UNCHANGED <<server_roles, server_channels, server_webhooks, next_id,
                               env_file, run, config_str, all_roles, all_channels,
                               all_categories, webhook_idx, writes, pre, history>>
           ELSE Abort

\* the type the server reports for a channel id
ChannelType(id) ==
    LET i == CHOOSE i \in 1..Len(server_channels) : server_channels[i].id = id
    IN  server_channels[i].type

\* the type is compared with the category type
is_forum_channel_wrong_type(type) == type = CATEGORY_TYPE

\* is_forum_channel (lines 85-89): the comparison of the reported type
is_forum_channel(type) == type = GUILD_FORUM_TYPE

ChannelExists(id) == \E i \in 1..Len(server_channels) : server_channels[i].id = id

\* the delete of line 185 is left out
ForumBranchNoDelete(is_forum) ==
    IF is_forum
    THEN /\ create_help_channel' = FALSE
         /\ EmitChannels(python_help_channel_id)
    ELSE /\ pc' = "create_forum_channel"
         /\ UNCHANGED <<create_help_channel, config_str, env_file, webhook_idx, writes>>

\* lines 184-187: a channel of the wrong type is deleted next, a forum channel
\* is kept and lines 192-217 follow
ForumBranch(is_forum) ==
    IF is_forum
    THEN /\ create_help_channel' = FALSE
         /\ EmitChannels(python_help_channel_id)
    ELSE /\ pc' = "delete_channel"
         /\ UNCHANGED <<create_help_channel, config_str, env_file, webhook_idx, writes>>

\* line 184, then lines 185-187
IsForumChannel ==
    /\ pc = "is_forum_channel"
    /\ \E status \in (IF ChannelExists(python_help_channel_id) THEN {200} ELSE {})
                     \cup FailStatus :
        /\ calls' = Call("GET channel", python_help_channel_id, <<>>, status, NoId)
        /\ IF IsSuccess(status)
           THEN /\ ForumBranch(is_forum_channel(ChannelType(python_help_channel_id)))
                /\ UNCHANGED <<serverVars, run, all_roles, all_channels, all_categories,
                               python_help_channel_id, pre, history>>
           ELSE Abort

\* line 185
DeleteChannel ==
    /\ pc = "delete_channel"
    /\ \E status \in (IF ChannelExists(python_help_channel_id) THEN {200} ELSE {})
                     \cup FailStatus :
        /\ calls' = Call("DELETE channel", python_help_channel_id, <<>>, status, NoId)
        /\ IF IsSuccess(status)
           THEN /\ server_channels' =
                       SelectSeq(server_channels,
                                 LAMBDA c : c.id # python_help_channel_id)
                /\ pc' = "create_forum_channel"
                /\ UNCHANGED <<guild_community, server_roles, server_webhooks, next_id,
                               env_file, run, config_str, all_roles, all_channels,
                               all_categories, create_help_channel,
                               python_help_channel_id, webhook_idx, writes, pre, history>>
           ELSE Abort

\* lines 189-190, then lines 192-217
CreateForumChannel ==
    /\ pc = "create_forum_channel"
    /\ create_help_channel
    /\ \E status \in {201} \cup FailStatus :
        LET channel_name == Replace(PYTHON_HELP_NAME, "_", "-")
        IN
        /\ IF IsSuccess(status)
           THEN /\ calls' = Call("POST channel", NoId, channel_name, status, next_id)
                /\ server_channels' =
                       Append(server_channels,
                              [name |-> channel_name,
                               type |-> GUILD_FORUM_TYPE, id |-> next_id])
                /\ next_id' = next_id + 1
                /\ python_help_channel_id' = next_id
                /\ EmitChannels(next_id)
                /\ UNCHANGED <<guild_community, server_roles, server_webhooks, run,
                               all_roles, all_channels, all_categories,
                               create_help_channel, pre, history>>
           ELSE /\ calls' = Call("POST channel", NoId, channel_name, status, NoId)
                /\ Abort


\* GET webhooks/{id} answers 2xx only for a webhook that exists, and "not found"
\* only for one that does not; any other failure can come at any time
WebhookStatus(id) ==
    IF \E h \in server_webhooks : h.id = id THEN {200, 500} ELSE {404, 500}

\* webhook_exists (lines 142-148): the value returned for a response status
webhook_exists(status) == IsSuccess(status)

\* all_channels[webhook_name] raises KeyError for a missing key: the script dies
KeyError ==
    /\ pc' = "crashed"
    /\ UNCHANGED <<serverVars, env_file, run, all_roles, all_channels, all_categories,
                   create_help_channel, python_help_channel_id, webhook_idx, writes,
                   pre, history>>

\* lines 226-227 for the webhook at webhook_idx with the id webhook_id, then the loop
EmitWebhook(webhook_id) ==
    LET name == Webhooks[webhook_idx].name
        id_line == Line("webhooks__id", name, webhook_id)
    IN  IF name \in DOMAIN all_channels
        THEN WebhookLoop(webhook_idx + 1,
                         config_str \o <<id_line,
                                         Line("webhooks__channel", name, all_channels[name])>>,
                         env_file, writes)
        ELSE /\ config_str' = Append(config_str, id_line)
             /\ KeyError

\* lines 220-222 and 224-227
WebhookExists ==
    /\ pc = "webhook_exists"
    /\ LET model == Webhooks[webhook_idx]
       IN  \E status \in WebhookStatus(model.id) :
            /\ calls' = Call("GET webhook", model.id, <<>>, status, NoId)
            /\ IF webhook_exists(status)
               THEN /\ EmitWebhook(model.id)
                    /\ UNCHANGED <<serverVars, run, all_roles, all_channels,
                                   all_categories, create_help_channel,
                                   python_help_channel_id, pre, history>>
               ELSE IF model.name \in DOMAIN all_channels
                    THEN /\ pc' = "create_webhook"
                         /\ UNCHANGED <<serverVars, env_file, run, config_str, all_roles,
                                        all_channels, all_categories, create_help_channel,
                                        python_help_channel_id, webhook_idx, writes,
                                        pre, history>>
                    ELSE /\ config_str' = config_str
                         /\ KeyError

\* line 223 (create_webhook, lines 151-157), then lines 226-227
CreateWebhook ==
    /\ pc = "create_webhook"
    /\ LET name == Webhooks[webhook_idx].name
           webhook_channel_id == all_channels[name]
       IN  \E status \in {200} \cup FailStatus :
            IF IsSuccess(status)
            THEN /\ calls' = Call("POST webhook", webhook_channel_id, name, status, next_id)
                 /\ server_webhooks' = server_webhooks \cup
                        {[id |-> next_id, channel_id |-> webhook_channel_id, name |-> name]}
                 /\ next_id' = next_id + 1
                 /\ EmitWebhook(next_id)
                 /\ UNCHANGED <<guild_community, server_roles, server_channels, run,
                                all_roles, all_channels, all_categories,
                                create_help_channel, python_help_channel_id, pre, history>>
            ELSE /\ calls' = Call("POST webhook", webhook_channel_id, name, status, NoId)
                 /\ Abort

\* the number of calls of log that got a failing response
Failures(log) == Cardinality({i \in 1..Len(log) : ~IsSuccess(log[i].status)})

Ended == pc \in {"done", "aborted", "crashed"}

\* the script is started again against the server as the last run left it
StartRun ==
    /\ Ended
    /\ run < MaxRuns
    /\ run' = run + 1
    /\ history' = <<[pre |-> pre, post |-> Server, file |-> env_file, outcome |-> pc,
                      failures |-> Failures(calls)]>>
    /\ pre' = Server
    /\ pc' = "get_roles"
    /\ config_str' = <<Header("#Roles")>>
    /\ all_roles' = EmptyDict
    /\ all_channels' = EmptyDict
    /\ all_categories' = EmptyDict
    /\ create_help_channel' = TRUE
    /\ python_help_channel_id' = NoId
    /\ webhook_idx' = 1
    /\ writes' = 0
    /\ calls' = <<>>
    /\ UNCHANGED <<serverVars, env_file>>

Next ==
    \/ GetAllRoles
    \/ GetAllChannelsAndCategories
    \/ IsCommunityServer
    \/ UpgradeServerToCommunity
    \/ IsForumChannel
    \/ DeleteChannel
    \/ CreateForumChannel
    \/ WebhookExists
    \/ CreateWebhook
    \/ StartRun

Spec == Init /\ [][Next]_vars

TypeOK ==
    /\ guild_community \in BOOLEAN
    /\ run \in 1..MaxRuns
    /\ pc \in {"get_roles", "get_channels", "is_community_server",
               "upgrade_server_to_community", "is_forum_channel", "delete_channel",
               "create_forum_channel", "webhook_exists", "create_webhook",
               "done", "aborted", "crashed"}
    /\ writes \in 0..2
    /\ webhook_idx \in 1..(Len(Webhooks) + 1)


(* ------------- get_all_channels_and_categories on arbitrary listings ---- *)
\* raw channel names: matching the off-topic pattern once normalised, nearly
\* matching it, and colliding with a generated name
OTNames == { <<"o","t","0","_","a">>,
             <<"O","T","1","-","b">>,
             <<"o","t","2"," ","c">>,
             <<"o","t","x","_","d">>,
             <<"o","t","3">>,
             <<"o","f","f","-","t","o","p","i","c","-","0">>,
             <<"D","e","v"," ","L","o","g">> }

InitOT ==
    /\ guild_community = TRUE
    /\ server_roles = <<>>
    /\ \E n \in 0..MaxListLen :
         \E f \in [1..n -> OTNames \X {TEXT_TYPE, CATEGORY_TYPE}] :
            server_channels = [i \in 1..n |-> [name |-> f[i][1], type |-> f[i][2],
                                               id |-> 10 + i]]
    /\ server_webhooks = {}
    /\ next_id = 101
    /\ env_file = <<>>
    /\ run = 1
    /\ RunStart
    /\ pre = Server
    /\ history = <<>>

NextOT == GetAllRoles \/ GetAllChannelsAndCategories

SpecOT == InitOT /\ [][NextOT]_vars

(* =============================== claims ================================ *)

\* the sequence <<Op(1), ..., Op(n)>>
MapTo(n, Op(_)) ==
    LET F[i \in 0..n] == IF i = 0 THEN <<>> ELSE Append(F[i-1], Op(i))
    IN  F[n]

\* the name each listing entry is expected to be stored under
ExpectedKeys(list) ==
    LET normalized == MapTo(Len(list), LAMBDA i : NormalizeName(list[i].name))
        matches == {i \in 1..Len(list) : OffTopicMatch(normalized[i])}
    IN  MapTo(Len(list), LAMBDA i :
            IF i \in matches
            THEN OffTopicName(Cardinality({j \in matches : j < i}))
            ELSE normalized[i])

IsCategory(list, i) == list[i].type = CATEGORY_TYPE

\* the id a dict built from list holds under the key of entry i: the id of the
\* last entry of the same kind with the same key
LastWithKey(list, keys, i) ==
    LET same == {j \in 1..Len(list) :
                    keys[j] = keys[i] /\ IsCategory(list, j) = IsCategory(list, i)}
        last == CHOOSE j \in same : \A k \in same : k <= j
    IN  list[last].id

ListingDone == pc = "is_community_server"

\* C9: after get_all_channels_and_categories, the j-th listing entry (from 0)
\* whose normalised name matches the off-topic pattern is stored under
\* off_topic_<j>, every other entry under its normalised name, in the dict of
\* its kind, and nothing else is stored
C9_OffTopicNumbering ==
    ListingDone =>
        LET keys == ExpectedKeys(server_channels)
            categories == {j \in 1..Len(server_channels) : IsCategory(server_channels, j)}
        IN  /\ \A i \in 1..Len(server_channels) :
                 LET dict == IF i \in categories THEN all_categories ELSE all_channels
                 IN  /\ keys[i] \in DOMAIN dict
                     /\ dict[keys[i]] = LastWithKey(server_channels, keys, i)
            /\ DOMAIN all_channels = {keys[i] : i \in (1..Len(server_channels)) \ categories}
            /\ DOMAIN all_categories = {keys[i] : i \in categories}

\* a listing with two matching entries around a non-matching one has been read:
\* the second match is stored under off_topic_1
C9_Witness ==
    /\ ListingDone
    /\ Len(server_channels) = 3
    /\ OffTopicMatch(NormalizeName(server_channels[1].name))
    /\ ~OffTopicMatch(NormalizeName(server_channels[2].name))
    /\ OffTopicMatch(NormalizeName(server_channels[3].name))
    /\ ~IsCategory(server_channels, 3)
    /\ OffTopicName(1) \in DOMAIN all_channels
    /\ all_channels[OffTopicName(1)] = server_channels[3].id


(* ----------------------- reading the log of a run ---------------------- *)
CallsOf(op) == {i \in 1..Len(calls) : calls[i].op = op}
Ok(i) == IsSuccess(calls[i].status)
OkCallsOf(op) == {i \in CallsOf(op) : Ok(i)}

\* the listing call of this run answered; it is issued before any mutating
\* call, so what it returned is the channel list the run started with
ListingReturned == OkCallsOf("GET channels") # {}
Listing == pre.channels

ListingKeys == ExpectedKeys(Listing)

HelpEntries(keys) == {i \in 1..Len(Listing) :
                         ~IsCategory(Listing, i) /\ keys[i] = PYTHON_HELP_NAME}

\* the id the run discovers for the designated python-help channel when the
\* channel listing contains it, NoId when it does not
DiscoveredHelpId ==
    LET keys == ListingKeys
        help == HelpEntries(keys)
    IN  IF ListingReturned /\ help # {}
        THEN LastWithKey(Listing, keys, CHOOSE i \in help : TRUE)
        ELSE NoId

TypeInListing(id) ==
    Listing[CHOOSE i \in 1..Len(Listing) : Listing[i].id = id].type

\* the listing contains the help channel, with the id help_id, and the
\* channel-is-forum check on it returned result
ForumCheckReturned(result, help_id) ==
    /\ OkCallsOf("GET channel") # {}
    /\ help_id # NoId
    /\ \E i \in OkCallsOf("GET channel") : calls[i].arg = help_id
    /\ (TypeInListing(help_id) = GUILD_FORUM_TYPE) = result

\* C2 as stated: a run with a help channel of the wrong type ends with exactly
\* one delete call, on the discovered id, and exactly one create call after it
C2_Original ==
    LET help_id == DiscoveredHelpId
    IN
    (Ended /\ ForumCheckReturned(FALSE, help_id)) =>
        /\ Cardinality(CallsOf("DELETE channel")) = 1
        /\ \A i \in CallsOf("DELETE channel") : calls[i].arg = help_id
        /\ Cardinality(CallsOf("POST channel")) = 1
        /\ \A j \in CallsOf("POST channel") : \E i \in CallsOf("DELETE channel") : i < j

\* C2 amended: once the forum check on the discovered help channel returned
\* false, the next call is the one delete call of the run, on the discovered
\* id; if it succeeds the call after it is the one create call of the run, and
\* if it fails the run is aborted without any create call
C2_DeleteThenCreate ==
    LET help_id == DiscoveredHelpId
    IN
    ForumCheckReturned(FALSE, help_id) =>
        /\ Cardinality(CallsOf("DELETE channel")) <= 1
        /\ Cardinality(CallsOf("POST channel")) <= 1
        /\ \A i \in CallsOf("DELETE channel") : calls[i].arg = help_id
        /\ \A j \in CallsOf("POST channel") : \E i \in OkCallsOf("DELETE channel") : i < j
        /\ pc # "delete_channel" => Cardinality(CallsOf("DELETE channel")) = 1
        /\ (OkCallsOf("DELETE channel") # {} /\ pc # "create_forum_channel")
              => Cardinality(CallsOf("POST channel")) = 1
        /\ (CallsOf("DELETE channel") # {} /\ OkCallsOf("DELETE channel") = {})
              => (pc = "aborted" /\ CallsOf("POST channel") = {})

\* a complete run that deleted the text channel python-help and created the forum
C2_Witness ==
    /\ pc = "done"
    /\ ForumCheckReturned(FALSE, DiscoveredHelpId)
    /\ \E i \in OkCallsOf("DELETE channel") : \E j \in OkCallsOf("POST channel") : i < j

HelpLines(text) == {i \in 1..Len(text) :
                       text[i].kind = "channels" /\ text[i].name = PYTHON_HELP_NAME}

\* C3: once the forum check on the discovered help channel returned true, the
\* run has issued no delete and no create-channel call, and the help channel
\* id in the text and in the file it wrote is the discovered id
C3_ForumReused ==
    LET help_id == DiscoveredHelpId
    IN
    ForumCheckReturned(TRUE, help_id) =>
        /\ CallsOf("DELETE channel") = {}
        /\ CallsOf("POST channel") = {}
        /\ python_help_channel_id = help_id
        /\ HelpLines(config_str) # {}
        /\ \A i \in HelpLines(config_str) : config_str[i].id = help_id
        /\ writes > 0
        /\ HelpLines(env_file) # {}
        /\ \A i \in HelpLines(env_file) : env_file[i].id = help_id

\* a complete run that found the forum channel "Python Help"
C3_Witness ==
    /\ pc = "done"
    /\ ForumCheckReturned(TRUE, DiscoveredHelpId)
    /\ \E i \in HelpLines(env_file) : env_file[i].id = 16

(* --------------------------- webhook claims ---------------------------- *)
\* the call after call i is a create-webhook call
FollowedByCreate(i) == i < Len(calls) /\ calls[i + 1].op = "POST webhook"

\* C1 as stated: a successful GET of a webhook counts as true (no create
\* follows), a "not found" as false (the run goes on to create the webhook),
\* and any other failing response aborts the run at that call
C1_WebhookExists ==
    \A i \in CallsOf("GET webhook") :
        /\ Ok(i) => ~FollowedByCreate(i)
        /\ calls[i].status = 404 =>
              \/ FollowedByCreate(i)
              \/ i = Len(calls) /\ pc \in {"create_webhook", "crashed"}
        /\ (~Ok(i) /\ calls[i].status # 404) => (i = Len(calls) /\ pc = "aborted")


WebhookIdLines(text, name) ==
    {i \in 1..Len(text) : text[i].kind = "webhooks__id" /\ text[i].name = name}

\* the create-webhook calls issued for the webhook called name
CreatesFor(name) == {j \in CallsOf("POST webhook") : calls[j].name = name}

\* C5 as stated: in a complete run, each expected webhook whose GET returned
\* "not found" got exactly one create call, under the channel of its name, and
\* the created id is the one written; each other webhook got no create call
\* and its prior id is the one written
C5_WebhookReconciled ==
    pc = "done" =>
        \A k \in 1..Len(Webhooks) :
            LET model == Webhooks[k]
                get == CHOOSE i \in CallsOf("GET webhook") : calls[i].arg = model.id
                written == {env_file[i].id : i \in WebhookIdLines(env_file, model.name)}
            IN  IF calls[get].status = 404
                THEN /\ Cardinality(CreatesFor(model.name)) = 1
                     /\ \A j \in CreatesFor(model.name) :
                           /\ calls[j].arg = all_channels[model.name]
                           /\ written = {calls[j].result}
                ELSE /\ CreatesFor(model.name) = {}
                     /\ written = {model.id}

(* ----------------------------- output lines ---------------------------- *)
\* the line carries an id that the listing of this run returned under its
\* name, or that a create call of this run returned for its name
LineHasSource(line, role_keys, channel_keys) ==
    CASE line.kind = "roles" ->
            /\ OkCallsOf("GET roles") # {}
            /\ \E i \in 1..Len(pre.roles) :
                  role_keys[i] = line.name /\ pre.roles[i].id = line.id
      [] line.kind = "channels" ->
            \/ /\ ListingReturned
               /\ \E i \in 1..Len(Listing) :
                     /\ ~IsCategory(Listing, i)
                     /\ channel_keys[i] = line.name
                     /\ Listing[i].id = line.id
            \/ \E j \in OkCallsOf("POST channel") :
                  /\ calls[j].result = line.id
                  /\ NormalizeName(calls[j].name) = line.name
      [] line.kind = "categories" ->
            /\ ListingReturned
            /\ \E i \in 1..Len(Listing) :
                  /\ IsCategory(Listing, i)
                  /\ channel_keys[i] = line.name
                  /\ Listing[i].id = line.id
      [] line.kind = "webhooks__id" ->
            \/ \E i \in OkCallsOf("GET webhook") :
                  /\ calls[i].arg = line.id
                  /\ \E k \in 1..Len(Webhooks) :
                        Webhooks[k].name = line.name /\ Webhooks[k].id = line.id
            \/ \E j \in OkCallsOf("POST webhook") :
                  calls[j].result = line.id /\ calls[j].name = line.name
      [] OTHER -> TRUE

\* C6: at every point of a run, every id line of the accumulated text, and of
\* the file once this run wrote it, carries an id returned under the line's name
\* by the roles or channels listing or by a successful webhook GET of this
\* run, or returned by a create call of this run for that name
C6_LinesHaveSource ==
    LET role_keys == MapTo(Len(pre.roles), LAMBDA i : NormalizeName(pre.roles[i].name))
        channel_keys == ListingKeys
    IN  /\ \A i \in 1..Len(config_str) :
              LineHasSource(config_str[i], role_keys, channel_keys)
        /\ writes > 0 =>
              \A i \in 1..Len(env_file) :
                  LineHasSource(env_file[i], role_keys, channel_keys)

\* a written file with a discovered role, a help channel created in this run
\* and a webhook created in this run, while an expected role is missing
C6_Witness ==
    /\ pc = "done"
    /\ \E i \in 1..Len(env_file) : env_file[i].kind = "roles"
    /\ Cardinality({i \in 1..Len(env_file) : env_file[i].kind = "roles"}) < Len(RolesFields)
    /\ \E i \in HelpLines(env_file) : \E j \in OkCallsOf("POST channel") :
          env_file[i].id = calls[j].result
    /\ \E i \in 1..Len(env_file) : \E j \in OkCallsOf("POST webhook") :
          env_file[i].kind = "webhooks__id" /\ env_file[i].id = calls[j].result

\* C7 as stated: whatever expected objects are missing, a run in which no API
\* call fails does not die; it ends with the second write of the full text
C7_MissingNeverFatal ==
    /\ Failures(calls) = 0 => pc \notin {"crashed", "aborted"}
    /\ pc = "done" => (writes = 2 /\ env_file = config_str)

\* C10 as stated: in a complete run no channels line of the file carries the
\* id of a channel this run deleted, every channel id in the file is a channel
\* of the server, and the python help key is on exactly one line, with the
\* resolved id
C10_NoDeletedChannelId ==
    pc = "done" =>
        /\ \A i \in 1..Len(env_file) :
              env_file[i].kind = "channels" =>
                  /\ \A d \in OkCallsOf("DELETE channel") : calls[d].arg # env_file[i].id
                  /\ ChannelExists(env_file[i].id)
        /\ Cardinality(HelpLines(env_file)) = 1
        /\ \A i \in HelpLines(env_file) : env_file[i].id = python_help_channel_id


(* --------------------------- failure semantics ------------------------- *)
\* the file as this run found it
FileAtStart == IF history = <<>> THEN <<>> ELSE history[1].file

\* the text of the first write: everything before the webhook section
Step7Text(text) ==
    LET k == CHOOSE i \in 1..Len(text) : text[i].kind = "#Webhooks"
    IN  SubSeq(text, 1, k - 1)

\* the calls of steps 1 to 4 (steps 5 and 6 issue none)
EarlyOps == {"GET roles", "GET channels", "GET guild", "PATCH guild", "GET channel",
             "DELETE channel", "POST channel"}

\* what holds in every state of a run with a failed call
C8_FailureState ==
    /\ \A i \in 1..Len(calls) :
          (~Ok(i) /\ calls[i].op # "GET webhook") => (i = Len(calls) /\ pc = "aborted")
    /\ pc = "aborted" =>
          LET failed == calls[Len(calls)]
          IN  /\ ~IsSuccess(failed.status)
              /\ failed.op \in EarlyOps => (writes = 0 /\ env_file = FileAtStart)
              /\ failed.op = "POST webhook" =>
                    (writes = 1 /\ env_file = Step7Text(config_str))
              /\ \A j \in OkCallsOf("POST channel") : ChannelExists(calls[j].result)
              /\ \A j \in OkCallsOf("DELETE channel") : ~ChannelExists(calls[j].arg)
              /\ \A j \in OkCallsOf("POST webhook") :
                    \E h \in server_webhooks : h.id = calls[j].result

\* what holds of every step into and out of the aborted state
C8_FailureStep ==
    /\ (pc # "aborted" /\ pc' = "aborted") =>
          (UNCHANGED <<serverVars, env_file, writes>> /\ Len(calls') = Len(calls) + 1)
    /\ pc = "aborted" =>
          /\ UNCHANGED <<serverVars, env_file>>
          /\ calls' = calls \/ run' = run + 1

Populated(s) ==
    LET keys == ExpectedKeys(s.channels)
        channels == {i \in 1..Len(s.channels) : ~IsCategory(s.channels, i)}
        categories == {i \in 1..Len(s.channels) : IsCategory(s.channels, i)}
        help == {i \in channels : keys[i] = PYTHON_HELP_NAME}
    IN  /\ s.community
        /\ \A k \in 1..Len(Webhooks) : \E h \in s.webhooks : h.id = Webhooks[k].id
        /\ \A k \in 1..Len(RolesFields) :
              \E i \in 1..Len(s.roles) : NormalizeName(s.roles[i].name) = RolesFields[k]
        /\ \A k \in 1..Len(ChannelsFields) : \E i \in channels : keys[i] = ChannelsFields[k]
        /\ \A k \in 1..Len(CategoriesFields) :
              \E i \in categories : keys[i] = CategoriesFields[k]
        /\ \E i \in help : /\ \A j \in help : j <= i
                           /\ s.channels[i].type = GUILD_FORUM_TYPE

MutatingOps == {"PATCH guild", "DELETE channel", "POST channel", "POST webhook"}

LinesOfKinds(text, kinds) == SelectSeq(text, LAMBDA line : line.kind \in kinds)

\* this run follows a complete run without failures on a populated guild and
\* has had no failure itself
SecondRun ==
    /\ history # <<>>
    /\ history[1].outcome = "done"
    /\ history[1].failures = 0
    /\ Failures(calls) = 0
    /\ Populated(history[1].pre)

\* C4: a second run in a row on a populated guild, without failures, issues no
\* mutating call and leaves the guild as the first run left it; when it is
\* complete the file has the role lines, category lines and webhook ids that
\* the first run wrote
C4_Idempotent ==
    SecondRun =>
        /\ \A i \in 1..Len(calls) : calls[i].op \notin MutatingOps
        /\ Server = history[1].post
        /\ pc = "done" =>
              LinesOfKinds(env_file, {"roles", "categories", "webhooks__id"})
                = LinesOfKinds(history[1].file, {"roles", "categories", "webhooks__id"})

\* the second run on a populated guild is complete
C4_Witness ==
    /\ SecondRun
    /\ pc = "done"
    /\ writes = 2
    /\ Len(LinesOfKinds(env_file, {"webhooks__id"})) = Len(Webhooks)

====
